---- MODULE Spec2Model ----
(***************************************************************************)
(* Model of src/mt5_scalper.py: the one-minute mean-reversion trading loop *)
(* run(), its safety gate, position sizer, order builder and risk state.   *)
(*                                                                         *)
(* Numbers.  Python floats are modelled by exact rationals kept in integer *)
(* units (rounding of binary floating point is not modelled):              *)
(*   - equity: whole currency units;                                       *)
(*   - closes, highs, lows: whole price units;                             *)
(*   - a stop distance: 1/1000 price unit;                                 *)
(*   - an order's sl / tp: 1/2000 price unit (so 1.5 * stop is exact);     *)
(*   - a volume: 1/100 lot;                                                *)
(*   - tick bid / ask: points (symbol_info.point is the size of a point);  *)
(*   - the clock: whole seconds since midnight of day 0;                   *)
(*   - a z-score: its sign and its square, the square a fraction num/den.  *)
(* Every clock read of one loop iteration returns the same instant t.      *)
(***************************************************************************)
EXTENDS Integers, Sequences, FiniteSets, TLC

\* An optional value: None (also the reply of a failed broker call) or Some(v).
\* A float that may be NaN is kept the same way: NaN or Some(v).
None == << >>

NaN == <<0, 0>>

Some(v) == <<v>>

Val(o) == o[1]

(***************************************************************************)
(* CONFIG (lines 24-43)                                                    *)
(***************************************************************************)
LOOKBACK == 120
Z_ENTER == [num |-> 6, den |-> 5]
Z_EXIT == [num |-> 3, den |-> 10]
\* 0.003, in thousandths
RISK_PER_TRADE == 3
MAX_DAILY_LOSS == [num |-> 2, den |-> 100]
MAX_LOSS_STREAK == 3
\* 0.004, in the unit of a frame's vol field (1e-6)
VOL_MAX == 4000
SPREAD_MAX == 50
MIN_TRADE_INTERVAL == 180
TRADE_HOURS == <<8, 22>>
\* mt5.TRADE_RETCODE_DONE, and a retcode of a rejected request
TRADE_RETCODE_DONE == 10009
TRADE_RETCODE_REJECT == 10006

(***************************************************************************)
(* Sequence helpers                                                        *)
(***************************************************************************)
RECURSIVE SumFromTo(_, _, _)
SumFromTo(s, a, b) ==
  IF a > b THEN 0
  ELSE IF a = b THEN s[a]
  ELSE SumFromTo(s, a, (a + b) \div 2) + SumFromTo(s, (a + b) \div 2 + 1, b)

Sum(s) == SumFromTo(s, 1, Len(s))

Sq(x) == x * x

Sgn(x) == IF x > 0 THEN 1 ELSE IF x < 0 THEN -1 ELSE 0

(***************************************************************************)
(* The clock: datetime.now() as seconds; .date(), .hour, timedelta.seconds *)
(***************************************************************************)
Date(t) == t \div 86400

Hour(t) == (t % 86400) \div 3600

\* timedelta.seconds: the seconds component, 0..86399, the days dropped
TimedeltaSeconds(d) == d % 86400

(***************************************************************************)
(* zscore (lines 80-84).  series.std() is the sample deviation (ddof = 1): *)
(* NaN for fewer than two values.  With n = Len, S = Sum, D = n*last - S   *)
(* and SS = Sum (n*x - S)^2:  std = 0 iff SS = 0, and                      *)
(* z^2 = (last - mean)^2 / std^2 = D^2 * (n - 1) / SS, sign(z) = sign(D).  *)
(***************************************************************************)
ZERO == [sgn |-> 0, num |-> 0, den |-> 1]

StdUndefined(series) == Len(series) <= 1

SumSqDev(series) ==
  LET n == Len(series)
      S == Sum(series)
  IN Sum([i \in 1..n |-> Sq(n * series[i] - S)])

\* zscore where no operation rounds: mean = S / n exactly
zscore(series) ==
  LET n == Len(series)
      D == n * series[n] - Sum(series)
  IN IF StdUndefined(series) \/ SumSqDev(series) = 0 THEN ZERO
     ELSE [sgn |-> Sgn(D), num |-> Sq(D) * (n - 1), den |-> SumSqDev(series)]

\* abs(z) <= q, z >= q and z <= -q for a positive fraction q
AbsLeq(z, q) == z.num * Sq(q.den) <= Sq(q.num) * z.den

Geq(z, q) == z.sgn = 1 /\ z.num * Sq(q.den) >= Sq(q.num) * z.den

LeqNeg(z, q) == z.sgn = -1 /\ z.num * Sq(q.den) >= Sq(q.num) * z.den

(***************************************************************************)
(* The detrended signal of run() (lines 211-213): close minus its rolling  *)
(* LOOKBACK-bar mean, undefined leading entries dropped.  Kept times       *)
(* LOOKBACK, an integer; a z-score does not change under a positive scale. *)
(***************************************************************************)
Signal(close) ==
  IF Len(close) < LOOKBACK THEN << >>
  ELSE [k \in 1..(Len(close) - LOOKBACK + 1) |->
          LOOKBACK * close[k + LOOKBACK - 1] - SumFromTo(close, k, k + LOOKBACK - 1)]

(***************************************************************************)
(* Bars: what rates() (lines 73-78) returns for one copy_rates_from reply. *)
(* A frame holds the close, high and low columns, oldest bar first, and in *)
(* vol the value pandas computes for                                       *)
(*   df['close'].pct_change().rolling(20).std().iloc[-1]   (line 108)      *)
(* in units of 1e-6, rounded down, NaN with fewer than 21 bars.            *)
(***************************************************************************)
BASE == 1000

\* m bars, flat at BASE, the last Len(tail) closes moved by tail
Closes(m, tail) ==
  [i \in 1..m |-> IF i > m - Len(tail) THEN BASE + tail[i - (m - Len(tail))] ELSE BASE]

Frame(close, halfRange, vol) ==
  [close |-> close,
   high |-> [i \in 1..Len(close) |-> close[i] + halfRange],
   low |-> [i \in 1..Len(close) |-> close[i] - halfRange],
   vol |-> vol]

Frames ==
  [flat  |-> Frame(Closes(LOOKBACK + 5, << >>), 1, Some(0)),
   up    |-> Frame(Closes(LOOKBACK + 5, <<1>>), 2, Some(223)),
   down  |-> Frame(Closes(LOOKBACK + 5, <<-1>>), 0, Some(223)),
   small |-> Frame(Closes(LOOKBACK + 5, <<-1, -1, 1, 0>>), 1, Some(562)),
   mid   |-> Frame(Closes(LOOKBACK + 5, <<-1, -1, 0, 0>>), 1, Some(324)),
   one   |-> Frame(Closes(LOOKBACK, <<1>>), 1, Some(223)),
   short |-> Frame(Closes(19, <<1>>), 1, NaN),
   spike |-> Frame([i \in 1..(LOOKBACK + 5) |->
                      IF i = 110 THEN BASE + 100 ELSE IF i = LOOKBACK + 5 THEN BASE + 1 ELSE BASE],
                   1, Some(31001))]

FrameIds == DOMAIN Frames

\* z = zscore(signal.dropna()) of each frame (lines 211-213)
FrameZ == [f \in FrameIds |-> zscore(Signal(Frames[f].close))]

\* df['close'].iloc[-1] (line 226)
LastClose(df) == df.close[Len(df.close)]

\* df['high'].sub(df['low']).rolling(20).mean().iloc[-1] (line 227), in 1/1000
AvgRange(df) ==
  LET m == Len(df.close)
  IN IF m < 20 THEN NaN
     ELSE Some(50 * Sum([i \in 1..20 |-> df.high[m - 20 + i] - df.low[m - 20 + i]]))

\* max(atr, price * 0.001) (line 228), in 1/1000: Python's max keeps its first
\* argument unless the second compares greater, so a NaN atr stays
StopDist(atr, price) ==
  IF atr = NaN THEN NaN
  ELSE IF price > Val(atr) THEN Some(price) ELSE atr

(***************************************************************************)
(* Symbol metadata (mt5.symbol_info) and quotes (mt5.symbol_info_tick)     *)
(***************************************************************************)
SymbolInfo(tv, ts, vmin, vmax, step) ==
  [point |-> 1, trade_tick_value |-> tv, trade_tick_size |-> ts,
   volume_min |-> vmin, volume_max |-> vmax, volume_step |-> step]

INFO == SymbolInfo(10, 1, 1, 500, 1)

TICK_OK == [bid |-> 100000, ask |-> 100050]

TICK_WIDE == [bid |-> 100000, ask |-> 100051]

(***************************************************************************)
(* compute_lot (lines 124-136).  info is the reply of mt5.symbol_info.     *)
(* risk_amount = equity * RISK_PER_TRADE is in 1/1000 currency units and   *)
(* stop_dist in 1/1000 price units, so                                     *)
(*   lots = risk_amount / (stop_dist * tick_value / tick_size)             *)
(* is the fraction num / den of 1/100 lots below.  Returns [raised,        *)
(* volume]; raised: AttributeError (no info) or ZeroDivisionError.         *)
(***************************************************************************)
Raised == [raised |-> TRUE, volume |-> 0]

\* math.floor(lots / step) * step for lots = num / den
FloorToStep(num, den, step) == (num \div (den * step)) * step

compute_lot(equity, stop_dist, info) ==
  IF info = None THEN Raised
  ELSE LET i == Val(info)
           num == 100 * equity * RISK_PER_TRADE * i.trade_tick_size
           den == Val(stop_dist) * i.trade_tick_value
           \* min(info.volume_max, lots) is volume_max unless lots < volume_max
           atMax == stop_dist = NaN \/ ~(num < i.volume_max * den)
           \* max(info.volume_min, that) is volume_min unless that > volume_min
           atMin == IF atMax THEN ~(i.volume_max > i.volume_min)
                    ELSE ~(num > i.volume_min * den)
       IN IF i.trade_tick_size = 0 THEN Raised
          ELSE IF stop_dist # NaN /\ den = 0 THEN Raised
          ELSE IF i.volume_step = 0 THEN Raised
          ELSE [raised |-> FALSE,
                volume |-> IF atMin THEN FloorToStep(i.volume_min, 1, i.volume_step)
                           ELSE IF atMax THEN FloorToStep(i.volume_max, 1, i.volume_step)
                           ELSE FloorToStep(num, den, i.volume_step)]

(***************************************************************************)
(* safety_check (lines 94-118).  t is datetime.now() (line 97), tick and   *)
(* info the replies of mt5.symbol_info_tick and mt5.symbol_info.  Returns  *)
(* [raised, ok, reason, calls]: calls are the broker calls made, in order; *)
(* raised: AttributeError on a None reply.                                 *)
(***************************************************************************)
GateResult(raised, ok, reason, calls) ==
  [raised |-> raised, ok |-> ok, reason |-> reason, calls |-> calls]

HoursFilterFails(t) == ~(TRADE_HOURS[1] <= Hour(t) /\ Hour(t) <= TRADE_HOURS[2])

CooldownFilterFails(t, ltt) ==
  ltt # None /\ TimedeltaSeconds(t - Val(ltt)) < MIN_TRADE_INTERVAL

\* vol > VOL_MAX: False for a NaN vol
VolatilityFilterFails(df) == df.vol # NaN /\ Val(df.vol) > VOL_MAX

SpreadFilterFails(tick, info) == tick.ask - tick.bid > SPREAD_MAX * info.point

\* the gate with the volatility filter first
safety_check_volatility_first(df, t, ltt, tick, info) ==
  IF VolatilityFilterFails(df) THEN GateResult(FALSE, FALSE, "volatility too high", << >>)
  ELSE IF HoursFilterFails(t) THEN GateResult(FALSE, FALSE, "outside trade hours", << >>)
  ELSE IF CooldownFilterFails(t, ltt) THEN GateResult(FALSE, FALSE, "cooldown", << >>)
  ELSE IF tick = None THEN GateResult(TRUE, FALSE, "", <<"symbol_info_tick">>)
  ELSE IF info = None THEN GateResult(TRUE, FALSE, "", <<"symbol_info_tick", "symbol_info">>)
  ELSE IF SpreadFilterFails(Val(tick), Val(info))
       THEN GateResult(FALSE, FALSE, "spread too wide", <<"symbol_info_tick", "symbol_info">>)
  ELSE GateResult(FALSE, TRUE, "ok", <<"symbol_info_tick", "symbol_info">>)

safety_check(df, t, ltt, tick, info) ==
  IF HoursFilterFails(t) THEN GateResult(FALSE, FALSE, "outside trade hours", << >>)
  ELSE IF CooldownFilterFails(t, ltt) THEN GateResult(FALSE, FALSE, "cooldown", << >>)
  ELSE IF VolatilityFilterFails(df) THEN GateResult(FALSE, FALSE, "volatility too high", << >>)
  ELSE IF tick = None THEN GateResult(TRUE, FALSE, "", <<"symbol_info_tick">>)
  ELSE IF info = None THEN GateResult(TRUE, FALSE, "", <<"symbol_info_tick", "symbol_info">>)
  ELSE IF SpreadFilterFails(Val(tick), Val(info))
       THEN GateResult(FALSE, FALSE, "spread too wide", <<"symbol_info_tick", "symbol_info">>)
  ELSE GateResult(FALSE, TRUE, "ok", <<"symbol_info_tick", "symbol_info">>)

(***************************************************************************)
(* send_order (lines 142-165).  tick and result are the replies of         *)
(* mt5.symbol_info_tick and mt5.order_send (a retcode, or None), dry is    *)
(* DRY_RUN.  Returns the record of the call: its arguments, the request it *)
(* built (None when it raised before building one), the broker calls made, *)
(* and how it ended in ret: "True", "False", or "raised" (AttributeError). *)
(***************************************************************************)
Request(side, volume, sl, tp, tick) ==
  [type |-> side, volume |-> volume, sl |-> sl, tp |-> tp,
   price |-> IF side = "buy" THEN tick.ask ELSE tick.bid]

SendResult(side, volume, sl, tp, request, calls, ret) ==
  [side |-> side, volume |-> volume, sl |-> sl, tp |-> tp,
   request |-> request, calls |-> calls, ret |-> ret]

\* send_order submitting whatever DRY_RUN says
send_order_always_live(side, volume, sl, tp, tick, result, dry) ==
  IF tick = None
  THEN SendResult(side, volume, sl, tp, None, <<"symbol_info_tick">>, "raised")
  ELSE LET request == Request(side, volume, sl, tp, Val(tick))
       IN IF result = None
          THEN SendResult(side, volume, sl, tp, Some(request),
                          <<"symbol_info_tick", "order_send">>, "raised")
          ELSE SendResult(side, volume, sl, tp, Some(request),
                          <<"symbol_info_tick", "order_send">>,
                          IF Val(result) = TRADE_RETCODE_DONE THEN "True" ELSE "False")

send_order(side, volume, sl, tp, tick, result, dry) ==
  IF tick = None
  THEN SendResult(side, volume, sl, tp, None, <<"symbol_info_tick">>, "raised")
  ELSE LET request == Request(side, volume, sl, tp, Val(tick))
       IN IF dry
          THEN SendResult(side, volume, sl, tp, Some(request), <<"symbol_info_tick">>, "True")
          ELSE IF result = None
          THEN SendResult(side, volume, sl, tp, Some(request),
                          <<"symbol_info_tick", "order_send">>, "raised")
          ELSE SendResult(side, volume, sl, tp, Some(request),
                          <<"symbol_info_tick", "order_send">>,
                          IF Val(result) = TRADE_RETCODE_DONE THEN "True" ELSE "False")

\* has_position (lines 86-88): the reply of mt5.positions_get, None when it is
\* None or empty
has_position(reply) == IF reply = None \/ Val(reply) = << >> THEN None ELSE reply

(***************************************************************************)
(* The environment: the instants the clock is read at, and the replies of  *)
(* the broker.                                                             *)
(***************************************************************************)
\* day 0 09:00:00, +5 s, +179 s, +180 s, 23:00:00; day 1 09:01:40, 09:03:20
Times == {32400, 32405, 32579, 32580, 82800, 118900, 119000}

Equities == {0, 9790, 9800, 10000}

\* mt5.account_info(): None, or an account with this equity
AccountReplies == {None} \cup {Some(e) : e \in Equities}

\* mt5.copy_rates_from(): None, or the bars of a frame
BarReplies == {None} \cup {Some(f) : f \in FrameIds}

GateTickReplies == {None, Some(TICK_OK), Some(TICK_WIDE)}

InfoReplies == {None, Some(INFO)}

\* positions: type 0 is a long (POSITION_TYPE_BUY), 1 a short; volume in 1/100 lot
LONG == [type |-> 0, volume |-> 10]

SHORT == [type |-> 1, volume |-> 20]

\* mt5.positions_get(): None, or a tuple of positions
PositionReplies == {None, Some(<< >>), Some(<<LONG>>), Some(<<SHORT, LONG>>)}

\* the replies one send_order call gets; order_send is not called in a dry run
SendReplies(dry) ==
  {[tick |-> tk, result |-> rs] :
     tk \in {None, Some(TICK_OK)},
     rs \in IF dry THEN {None}
            ELSE {None, Some(TRADE_RETCODE_DONE), Some(TRADE_RETCODE_REJECT)}}

\* order_send calls counted over a run are capped at this
MaxOrderSends == 2

(***************************************************************************)
(* STATE (lines 48-52), the position of the process, and what the last     *)
(* loop iteration did.                                                     *)
(***************************************************************************)
VARIABLES
  pc,               \* "start", "loop" (the top of the loop), "sleep" (in the
                    \* time.sleep ending an iteration), "raised", "stopped"
  now,              \* the instant the clock is read at in this iteration
  DRY_RUN,          \* the configured mode (line 41), fixed for a run
  last_trade_time,  \* None or Some(t)
  loss_streak,
  peak_equity,      \* None or Some(equity)
  day_start,        \* a date
  start_equity,     \* None or Some(equity)
  it,               \* the report of the iteration that just ended
  order_send_calls, \* mt5.order_send calls so far
  shutdown_calls,   \* mt5.shutdown calls so far
  initialized,      \* the reply of mt5.initialize() (line 62), None before it
  last_send,        \* history: the instant of the last iteration that called
                    \* send_order, None before the first
  fn_in,            \* the arguments of a function applied on its own, or None
  fn_out            \* its result, or None

vars == <<pc, now, DRY_RUN, last_trade_time, loss_streak, peak_equity, day_start,
          start_equity, it, order_send_calls, shutdown_calls, initialized, last_send, fn_in, fn_out>>

\* outcome: "none" (no iteration yet), "daily_loss", "loss_streak", "gate",
\* "exit", "entry", "hold", "wait", or "error" (an exception was caught, raised
\* in step); rolled: the day rollover ran; equity, bars, tick, info, pos: what
\* account(), rates(), the gate's two queries and has_position() returned, None
\* when not called; reason: what safety_check returned; z: the z-score, None
\* when not computed; calls: the broker calls in order; sends: the send_order
\* calls in order
Report(outcome, step, rolled, equity, bars, reason, tick, info, z, pos, calls, sends) ==
  [outcome |-> outcome, step |-> step, rolled |-> rolled, equity |-> equity,
   bars |-> bars, reason |-> reason, tick |-> tick, info |-> info, z |-> z,
   pos |-> pos, calls |-> calls, sends |-> sends]

NoReport == Report("none", "", FALSE, None, None, "", None, None, None, None, << >>, << >>)

RECURSIVE CallsOf(_)
CallsOf(sends) ==
  IF sends = << >> THEN << >> ELSE Head(sends).calls \o CallsOf(Tail(sends))

Count(seq, x) == Cardinality({i \in 1..Len(seq) : seq[i] = x})

\* time.sleep at the end of an iteration (lines 194, 200, 207, 240, 244)
SleepAfter(outcome) ==
  CASE outcome = "daily_loss" -> 300
    [] outcome = "loss_streak" -> 900
    [] outcome = "error" -> 10
    [] OTHER -> 5

Init ==
  /\ pc = "start"
  /\ now = 32400
  /\ DRY_RUN \in BOOLEAN
  /\ last_trade_time = None
  /\ loss_streak = 0
  /\ peak_equity = None
  /\ day_start = Date(32400)
  /\ start_equity = None
  /\ it = NoReport
  /\ order_send_calls = 0
  /\ shutdown_calls = 0
  /\ initialized = None
  /\ last_send = None
  /\ fn_in = None
  /\ fn_out = None

(***************************************************************************)
(* One iteration of the loop of run() (lines 177-244), written stage by    *)
(* stage, last stage first.  t is the instant of the iteration, g the      *)
(* globals after the bookkeeping of lines 181-189, r the report so far.    *)
(* The iteration ends in one of the time.sleep calls.                      *)
(***************************************************************************)
\* the end of an iteration: the globals are written, the loop sleeps
Finish(t, g, ltt, r) ==
  /\ order_send_calls + Count(r.calls, "order_send") <= MaxOrderSends
  /\ order_send_calls' = order_send_calls + Count(r.calls, "order_send")
  /\ pc' = "sleep"
  /\ start_equity' = g.start_equity
  /\ peak_equity' = g.peak_equity
  /\ day_start' = g.day_start
  /\ loss_streak' = g.loss_streak
  /\ last_trade_time' = ltt
  /\ it' = r
  /\ last_send' = (IF r.sends # << >> THEN Some(t) ELSE last_send)
  /\ UNCHANGED <<now, DRY_RUN, shutdown_calls, initialized, fn_in, fn_out>>

\* no except clause: the exception raised in step leaves run()
Caught_propagates(t, g, r, step) ==
  /\ pc' = "raised"
  /\ start_equity' = g.start_equity
  /\ peak_equity' = g.peak_equity
  /\ day_start' = g.day_start
  /\ loss_streak' = g.loss_streak
  /\ it' = [r EXCEPT !.outcome = "error", !.step = step]
  /\ last_send' = (IF r.sends # << >> THEN Some(t) ELSE last_send)
  /\ UNCHANGED <<now, DRY_RUN, last_trade_time, order_send_calls, shutdown_calls, initialized, fn_in, fn_out>>

\* except Exception (lines 242-244): the exception raised in step is caught
Caught(t, g, r, step) ==
  Finish(t, g, last_trade_time, [r EXCEPT !.outcome = "error", !.step = step])

\* closing on the side of the position
ClosingSide_same(p) == IF p.type = 0 THEN "buy" ELSE "sell"

\* the side of the order closing position p (line 221)
ClosingSide(p) == IF p.type = 0 THEN "sell" ELSE "buy"

\* for p in pos: send_order(...) (lines 220-221), from position k on; the loop
\* ends at the first call that raises
RECURSIVE CloseFrom(_, _, _, _)
CloseFrom(pos, env, dry, k) ==
  IF k > Len(pos) THEN << >>
  ELSE LET s == send_order(ClosingSide(pos[k]), pos[k].volume, None, None,
                           env[k].tick, env[k].result, dry)
       IN IF s.ret = "raised" THEN <<s>>
          ELSE <<s>> \o CloseFrom(pos, env, dry, k + 1)

\* EXIT counting a rejected closing order as a loss
Exit_counts_rejection(t, g, r, pos) ==
  \E env \in [1..Len(pos) -> SendReplies(DRY_RUN)] :
    LET sends == CloseFrom(pos, env, DRY_RUN, 1)
        r2 == [r EXCEPT !.sends = sends, !.calls = @ \o CallsOf(sends)]
        g2 == IF \E k \in 1..Len(sends) : sends[k].ret = "False"
              THEN [g EXCEPT !.loss_streak = @ + 1] ELSE g
    IN IF sends[Len(sends)].ret = "raised"
       THEN Caught(t, g, r2, "send")
       ELSE Finish(t, g2, Some(t), [r2 EXCEPT !.outcome = "exit"])

\* EXIT (lines 218-222)
Exit(t, g, r, pos) ==
  \E env \in [1..Len(pos) -> SendReplies(DRY_RUN)] :
    LET sends == CloseFrom(pos, env, DRY_RUN, 1)
        r2 == [r EXCEPT !.sends = sends, !.calls = @ \o CallsOf(sends)]
    IN IF sends[Len(sends)].ret = "raised"
       THEN Caught(t, g, r2, "send")
       ELSE Finish(t, g, Some(t), [r2 EXCEPT !.outcome = "exit"])

\* the levels with the stop-loss and the take-profit of a buy on the wrong sides
EntryLevels_buy_as_sell(side, price, stop_dist) ==
  IF stop_dist = NaN THEN [sl |-> NaN, tp |-> NaN]
  ELSE [sl |-> Some(2000 * price + 2 * Val(stop_dist)),
        tp |-> Some(2000 * price - 3 * Val(stop_dist))]

\* the stop-loss and take-profit of an entry (lines 232, 237), in 1/2000
EntryLevels(side, price, stop_dist) ==
  IF stop_dist = NaN THEN [sl |-> NaN, tp |-> NaN]
  ELSE IF side = "sell"
  THEN [sl |-> Some(2000 * price + 2 * Val(stop_dist)),
        tp |-> Some(2000 * price - 3 * Val(stop_dist))]
  ELSE [sl |-> Some(2000 * price - 2 * Val(stop_dist)),
        tp |-> Some(2000 * price + 3 * Val(stop_dist))]

\* one branch of ENTRY (lines 231-233, 236-238)
Enter(t, g, r, equity, side, price, stop_dist) ==
  \E info \in InfoReplies :
    LET lots == compute_lot(equity, stop_dist, info)
        lv == EntryLevels(side, price, stop_dist)
        r2 == [r EXCEPT !.calls = @ \o <<"symbol_info">>]
    IN IF lots.raised THEN Caught(t, g, r2, "sizing")
       ELSE \E env \in SendReplies(DRY_RUN) :
              LET s == send_order(side, lots.volume, lv.sl, lv.tp,
                                  env.tick, env.result, DRY_RUN)
                  r3 == [r2 EXCEPT !.sends = <<s>>, !.calls = @ \o s.calls]
              IN IF s.ret = "raised" THEN Caught(t, g, r3, "send")
                 ELSE Finish(t, g, Some(t), [r3 EXCEPT !.outcome = "entry"])

\* the entry decided against the exit threshold
EntrySide_exit_threshold(z) ==
  IF Geq(z, Z_EXIT) THEN "sell" ELSE IF LeqNeg(z, Z_EXIT) THEN "buy" ELSE "none"

\* the entry the z-score asks for when no position is open (lines 230, 235)
EntrySide(z) ==
  IF Geq(z, Z_ENTER) THEN "sell" ELSE IF LeqNeg(z, Z_ENTER) THEN "buy" ELSE "none"

\* the decision with the entry branch not asking for "not pos"
Execute_enter_with_position(t, g, r, equity, bars, posReply) ==
  LET df == Frames[bars]
      z == FrameZ[bars]
      pos == has_position(posReply)
      r2 == [r EXCEPT !.z = Some(z), !.pos = pos, !.calls = @ \o <<"positions_get">>]
      price == LastClose(df)
      stop_dist == StopDist(AvgRange(df), price)
  IN IF pos # None /\ AbsLeq(z, Z_EXIT) THEN Exit(t, g, r2, Val(pos))
     ELSE IF EntrySide(z) # "none"
     THEN Enter(t, g, r2, equity, EntrySide(z), price, stop_dist)
     ELSE Finish(t, g, last_trade_time, [r2 EXCEPT !.outcome = "wait"])

\* the signal and the decision (lines 210-240)
Execute(t, g, r, equity, bars, posReply) ==
  LET df == Frames[bars]
      z == FrameZ[bars]
      pos == has_position(posReply)
      r2 == [r EXCEPT !.z = Some(z), !.pos = pos, !.calls = @ \o <<"positions_get">>]
      price == LastClose(df)
      stop_dist == StopDist(AvgRange(df), price)
  IN IF pos # None /\ AbsLeq(z, Z_EXIT) THEN Exit(t, g, r2, Val(pos))
     ELSE IF pos = None
     THEN IF EntrySide(z) # "none"
          THEN Enter(t, g, r2, equity, EntrySide(z), price, stop_dist)
          ELSE Finish(t, g, last_trade_time, [r2 EXCEPT !.outcome = "wait"])
     ELSE Finish(t, g, last_trade_time, [r2 EXCEPT !.outcome = "hold"])

\* the gate with its verdict not looked at
Gate_verdict_ignored(t, g, r, equity) ==
  \E reply \in BarReplies :
    LET r2 == [r EXCEPT !.calls = @ \o <<"copy_rates_from">>]
    IN IF reply = None THEN Caught(t, g, r2, "rates")
       ELSE \E tick \in GateTickReplies, info \in InfoReplies :
              LET sc == safety_check(Frames[Val(reply)], t, last_trade_time, tick, info)
                  r3 == [r2 EXCEPT !.bars = reply, !.reason = sc.reason,
                                   !.tick = IF Len(sc.calls) >= 1 THEN tick ELSE None,
                                   !.info = IF Len(sc.calls) >= 2 THEN info ELSE None,
                                   !.calls = @ \o sc.calls]
              IN IF sc.raised THEN Caught(t, g, r3, "gate")
                 ELSE \E posReply \in PositionReplies :
                        Execute(t, g, r3, equity, Val(reply), posReply)

\* the bar fetch and the safety gate (lines 203-208)
Gate(t, g, r, equity) ==
  \E reply \in BarReplies :
    LET r2 == [r EXCEPT !.calls = @ \o <<"copy_rates_from">>]
    IN IF reply = None THEN Caught(t, g, r2, "rates")
       ELSE \E tick \in GateTickReplies, info \in InfoReplies :
              LET sc == safety_check(Frames[Val(reply)], t, last_trade_time, tick, info)
                  r3 == [r2 EXCEPT !.bars = reply, !.reason = sc.reason,
                                   !.tick = IF Len(sc.calls) >= 1 THEN tick ELSE None,
                                   !.info = IF Len(sc.calls) >= 2 THEN info ELSE None,
                                   !.calls = @ \o sc.calls]
              IN IF sc.raised THEN Caught(t, g, r3, "gate")
                 ELSE IF ~sc.ok THEN Finish(t, g, last_trade_time, [r3 EXCEPT !.outcome = "gate"])
                 ELSE \E posReply \in PositionReplies :
                        Execute(t, g, r3, equity, Val(reply), posReply)

\* the breaker with >= for >
DailyLossHit_geq(start, equity) ==
  IF start > 0
  THEN (start - equity) * MAX_DAILY_LOSS.den >= MAX_DAILY_LOSS.num * start
  ELSE (start - equity) * MAX_DAILY_LOSS.den <= MAX_DAILY_LOSS.num * start

\* (start_equity - equity) / start_equity > MAX_DAILY_LOSS (line 192), for a
\* start_equity other than 0
DailyLossHit(start, equity) ==
  IF start > 0
  THEN (start - equity) * MAX_DAILY_LOSS.den > MAX_DAILY_LOSS.num * start
  ELSE (start - equity) * MAX_DAILY_LOSS.den < MAX_DAILY_LOSS.num * start

\* the daily-loss breaker measuring against the start_equity of before the
\* bookkeeping
Breakers_stale_start(t, g, r, equity) ==
  LET start == IF start_equity = None THEN g.start_equity ELSE start_equity
  IN IF Val(start) = 0 THEN Caught(t, g, r, "daily_loss")
     ELSE IF DailyLossHit(Val(start), equity)
     THEN Finish(t, g, last_trade_time, [r EXCEPT !.outcome = "daily_loss"])
     ELSE IF g.loss_streak >= MAX_LOSS_STREAK
     THEN Finish(t, g, last_trade_time, [r EXCEPT !.outcome = "loss_streak"])
     ELSE Gate(t, g, r, equity)

\* the two breakers (lines 191-201)
Breakers(t, g, r, equity) ==
  IF Val(g.start_equity) = 0 THEN Caught(t, g, r, "daily_loss")
  ELSE IF DailyLossHit(Val(g.start_equity), equity)
  THEN Finish(t, g, last_trade_time, [r EXCEPT !.outcome = "daily_loss"])
  ELSE IF g.loss_streak >= MAX_LOSS_STREAK
  THEN Finish(t, g, last_trade_time, [r EXCEPT !.outcome = "loss_streak"])
  ELSE Gate(t, g, r, equity)

\* the first observation, with peak_equity following every new high after it
FirstObservation_peak_tracks(g, equity) ==
  IF g.start_equity = None
  THEN [g EXCEPT !.start_equity = Some(equity), !.peak_equity = Some(equity)]
  ELSE IF equity > Val(g.peak_equity) THEN [g EXCEPT !.peak_equity = Some(equity)]
  ELSE g

\* the first observation of the equity (lines 181-183)
FirstObservation(g, equity) ==
  IF g.start_equity = None
  THEN [g EXCEPT !.start_equity = Some(equity), !.peak_equity = Some(equity)]
  ELSE g

\* the daily reset moving the day marker only
DailyReset_marker_only(g, equity, t) ==
  IF Date(t) # g.day_start THEN [g EXCEPT !.day_start = Date(t)] ELSE g

\* the daily reset (lines 186-189)
DailyReset(g, equity, t) ==
  IF Date(t) # g.day_start
  THEN [g EXCEPT !.day_start = Date(t), !.start_equity = Some(equity), !.loss_streak = 0]
  ELSE g

Globals ==
  [start_equity |-> start_equity, peak_equity |-> peak_equity,
   day_start |-> day_start, loss_streak |-> loss_streak]

\* the account snapshot and the bookkeeping (lines 179-189)
Snapshot(t, acct) ==
  LET r == [NoReport EXCEPT !.outcome = "", !.calls = <<"account_info">>]
  IN IF acct = None THEN Caught(t, Globals, r, "account")
     ELSE LET equity == Val(acct)
              g == DailyReset(FirstObservation(Globals, equity), equity, t)
          IN Breakers(t, g, [r EXCEPT !.equity = acct, !.rolled = Date(t) # day_start],
                      equity)

(***************************************************************************)
(* The actions                                                             *)
(***************************************************************************)
\* init() succeeds (lines 61-64, 174-175): the loop starts, at some instant
InitOk ==
  /\ pc = "start"
  /\ pc' = "loop"
  /\ \E t \in Times : t >= now /\ now' = t
  /\ initialized' = Some(TRUE)
  /\ UNCHANGED <<DRY_RUN, last_trade_time, loss_streak, peak_equity, day_start,
                 start_equity, it, order_send_calls, shutdown_calls, last_send, fn_in, fn_out>>

\* mt5.initialize() fails and init() goes on without raising
InitFail_continues ==
  /\ pc = "start"
  /\ pc' = "loop"
  /\ initialized' = Some(FALSE)
  /\ UNCHANGED <<now, DRY_RUN, last_trade_time, loss_streak, peak_equity, day_start,
                 start_equity, it, order_send_calls, shutdown_calls, last_send, fn_in, fn_out>>

\* mt5.initialize() fails: init() raises RuntimeError, which run() and the
\* main block (lines 248-253) do not catch
InitFail ==
  /\ pc = "start"
  /\ pc' = "raised"
  /\ initialized' = Some(FALSE)
  /\ UNCHANGED <<now, DRY_RUN, last_trade_time, loss_streak, peak_equity, day_start,
                 start_equity, it, order_send_calls, shutdown_calls, last_send, fn_in, fn_out>>

\* one iteration of while True (lines 177-244), up to its time.sleep
Iterate ==
  /\ pc = "loop"
  /\ \E acct \in AccountReplies : Snapshot(now, acct)

\* time.sleep returns, no earlier than asked, and the next iteration begins
Wake ==
  /\ pc = "sleep"
  /\ pc' = "loop"
  /\ \E t \in Times : t >= now + SleepAfter(it.outcome) /\ now' = t
  /\ it' = NoReport
  /\ UNCHANGED <<DRY_RUN, last_trade_time, loss_streak, peak_equity, day_start,
                 start_equity, order_send_calls, shutdown_calls, initialized, last_send, fn_in, fn_out>>

\* KeyboardInterrupt (lines 249-253): not an Exception, so the loop does not
\* catch it; the main block shuts the terminal connection down
Interrupt ==
  /\ pc \in {"start", "loop", "sleep"}
  /\ pc' = "stopped"
  /\ shutdown_calls' = shutdown_calls + 1
  /\ UNCHANGED <<now, DRY_RUN, last_trade_time, loss_streak, peak_equity, day_start,
                 start_equity, it, order_send_calls, initialized, last_send, fn_in, fn_out>>

Next == InitOk \/ InitFail \/ Iterate \/ Wake \/ Interrupt

Spec == Init /\ [][Next]_vars

(***************************************************************************)
(* Properties.  IterationStep: a step that runs one iteration of the loop; *)
(* in it the unprimed variables are the state the iteration started in and *)
(* it' is its report.                                                      *)
(***************************************************************************)
IterationStep == pc = "loop" /\ pc' = "sleep"

\* C1: in every iteration whose account snapshot succeeds and whose
\* start_equity is not 0, the daily-loss breaker trips iff
\* (start_equity - equity) / start_equity > 0.02, strictly (10000 and 9800: no
\* trip; 10000 and 9790: trip); an iteration where it trips fetches no bars,
\* does not evaluate safety_check, computes no z-score, sends no order and
\* leaves last_trade_time unchanged.
C1_DailyLossBreaker ==
  [][(IterationStep /\ it'.equity # None /\ start_equity' # Some(0))
       => LET s == Val(start_equity')
              e == Val(it'.equity)
              over == IF s > 0 THEN 100 * (s - e) > 2 * s ELSE 100 * (s - e) < 2 * s
          IN /\ (it'.outcome = "daily_loss") <=> over
             /\ (s = 10000 /\ e = 9800) => it'.outcome # "daily_loss"
             /\ (s = 10000 /\ e = 9790) => it'.outcome = "daily_loss"
             /\ it'.outcome = "daily_loss"
                  => /\ it'.calls = <<"account_info">>
                     /\ it'.bars = None
                     /\ it'.reason = ""
                     /\ it'.z = None
                     /\ it'.sends = << >>
                     /\ last_trade_time' = last_trade_time
                     /\ order_send_calls' = order_send_calls]_vars

\* a trip at 10000 -> 9790 after a trade was made
C1_Witness ==
  /\ pc = "sleep"
  /\ it.outcome = "daily_loss"
  /\ start_equity = Some(10000)
  /\ it.equity = Some(9790)
  /\ last_trade_time # None

\* C2: in the first iteration with a successful account snapshot whose date
\* differs from day_start, start_equity becomes that iteration's equity,
\* loss_streak 0 and day_start the current date; after it day_start is the
\* current date, so it happens once per date change, and an iteration on the
\* date of day_start leaves the three unchanged (as does an iteration whose
\* snapshot fails, which leaves the rollover to the next one).
C2_DayRollover ==
  [][IterationStep
       => IF it'.equity = None
          THEN UNCHANGED <<start_equity, loss_streak, day_start>>
          ELSE /\ IF Date(now) # day_start
                  THEN /\ start_equity' = it'.equity
                       /\ loss_streak' = 0
                       /\ day_start' = Date(now)
                  ELSE /\ day_start' = day_start
                       /\ loss_streak' = loss_streak
                       /\ start_equity # None => start_equity' = start_equity
               /\ day_start' = Date(now')]_vars

\* a rollover on day 1 that replaced the start-of-day equity of day 0
C2_Witness ==
  /\ pc = "sleep"
  /\ it.rolled
  /\ day_start = 1
  /\ peak_equity = Some(10000)
  /\ start_equity = Some(9800)
  /\ it.equity = Some(9800)

\* C3: safety_check applies its filters in the order trading hours, cooldown,
\* volatility, spread and returns the reason of the first that fails, whatever
\* the later ones would give; when one of the first three fails the tick and
\* the symbol info are not queried; it returns "ok" only when all four pass.
C3_GateOrder ==
  [][(IterationStep /\ it'.bars # None)
       => LET df == Frames[Val(it'.bars)]
              hours == ~(8 <= Hour(now) /\ Hour(now) <= 22)
              cool == /\ last_trade_time # None
                      /\ (now - Val(last_trade_time)) % 86400 < 180
              vol == df.vol # NaN /\ Val(df.vol) > 4000
              early == it'.calls = <<"account_info", "copy_rates_from">>
              wide == Val(it'.tick).ask - Val(it'.tick).bid > 50 * Val(it'.info).point
          IN /\ hours => it'.reason = "outside trade hours" /\ early
             /\ (~hours /\ cool) => it'.reason = "cooldown" /\ early
             /\ (~hours /\ ~cool /\ vol) => it'.reason = "volatility too high" /\ early
             /\ (hours \/ cool \/ vol)
                  => it'.outcome = "gate" /\ it'.tick = None /\ it'.info = None
             /\ (~hours /\ ~cool /\ ~vol)
                  => /\ Len(it'.calls) >= 3 /\ it'.calls[3] = "symbol_info_tick"
                     /\ IF it'.tick = None \/ it'.info = None
                        THEN it'.outcome = "error" /\ it'.step = "gate" /\ it'.reason = ""
                        ELSE IF wide
                        THEN it'.outcome = "gate" /\ it'.reason = "spread too wide"
                        ELSE it'.reason = "ok" /\ it'.outcome # "gate"]_vars

\* outside trading hours with bars whose volatility is too high as well
C3_Witness ==
  /\ pc = "sleep"
  /\ it.reason = "outside trade hours"
  /\ it.bars = Some("spike")
  /\ Hour(now) = 23
  /\ "symbol_info_tick" \notin {it.calls[i] : i \in 1..Len(it.calls)}

\* an iteration that passed both breakers and the gate, found open positions
\* and computed abs(z) <= 0.3
ExitCase ==
  /\ pc = "sleep"
  /\ it.reason = "ok"
  /\ it.pos # None
  /\ it.z # None
  /\ 100 * Val(it.z).num <= 9 * Val(it.z).den

\* the k-th send_order call closes the k-th open position: the opposite side,
\* the position's volume, no stop-loss and no take-profit
ClosesPosition(k) ==
  LET p == Val(it.pos)[k]
      s == it.sends[k]
  IN /\ s.side = (IF p.type = 0 THEN "sell" ELSE "buy")
     /\ s.volume = p.volume
     /\ s.sl = None
     /\ s.tp = None

\* C4, as claimed: in an iteration where both breakers and the gate pass, a
\* position is open and abs(z) <= Z_EXIT, run() sends for every open position
\* one order of the opposite side with that position's volume and no stop-loss
\* or take-profit (read here as: makes that send_order call), and no entry.
C4_Original ==
  ExitCase
    => /\ Len(it.sends) = Len(Val(it.pos))
       /\ \A k \in 1..Len(it.sends) : ClosesPosition(k)

\* C4, amended: in such an iteration run() calls send_order for the open
\* positions in order, each call with the opposite side, the position's volume
\* and no stop-loss or take-profit, until a call raises; every position gets
\* its call exactly when no earlier call raised, the iteration is an error
\* when one raised, and no entry order is sent.
C4_ExitUntilRaise ==
  ExitCase
    => LET n == Len(it.sends)
       IN /\ 1 <= n /\ n <= Len(Val(it.pos))
          /\ \A k \in 1..n : ClosesPosition(k)
          /\ \A k \in 1..(n - 1) : it.sends[k].ret # "raised"
          /\ n < Len(Val(it.pos)) => it.sends[n].ret = "raised"
          /\ it.outcome = (IF it.sends[n].ret = "raised" THEN "error" ELSE "exit")

\* a short and a long position closed at a z-score of 0.22
C4_Witness ==
  /\ ExitCase
  /\ it.outcome = "exit"
  /\ it.bars = Some("small")
  /\ Len(it.sends) = 2
  /\ it.sends[1].side = "buy"
  /\ it.sends[2].side = "sell"

\* an iteration that passed both breakers and the gate and found no open
\* position
FlatCase ==
  /\ pc = "sleep"
  /\ it.reason = "ok"
  /\ it.z # None
  /\ it.pos = None

\* the last close of the iteration's bars, and max(mean of high - low over the
\* last 20 bars, 0.001 * price) in 1/1000 price units
PriceOf(b) == Frames[b].close[Len(Frames[b].close)]

StopOf(b) ==
  LET m == Len(Frames[b].close)
      range20 == Sum([i \in 1..20 |-> Frames[b].high[m - 20 + i] - Frames[b].low[m - 20 + i]])
  IN IF 1000 * range20 >= 20 * PriceOf(b) THEN 50 * range20 ELSE PriceOf(b)

\* the volume of INFO for a risk of 0.003 * equity: 100 * 3 * equity * tick_size
\* / (stop * tick_value) 1/100 lots, within [volume_min, volume_max] = [1, 500],
\* rounded down to the step of 1
VolumeOf(equity, stop) ==
  LET lots == (300 * equity * 1) \div (stop * 10)
  IN IF lots > 500 THEN 500 ELSE IF lots < 1 THEN 1 ELSE lots

\* the one send_order call of an entry on side, with the levels around price
EntryCall(side) ==
  LET price == PriceOf(Val(it.bars))
      stop == StopOf(Val(it.bars))
      s == it.sends[1]
  IN /\ Len(it.sends) = 1
     /\ s.side = side
     /\ s.volume = VolumeOf(Val(it.equity), stop)
     /\ s.sl = Some(IF side = "sell" THEN 2000 * price + 2 * stop ELSE 2000 * price - 2 * stop)
     /\ s.tp = Some(IF side = "sell" THEN 2000 * price - 3 * stop ELSE 2000 * price + 3 * stop)
     /\ price > 0 =>
          IF side = "sell"
          THEN Val(s.tp) < 2000 * price /\ 2000 * price < Val(s.sl)
          ELSE Val(s.sl) < 2000 * price /\ 2000 * price < Val(s.tp)

ZAtLeastEnter == Val(it.z).sgn = 1 /\ 25 * Val(it.z).num >= 36 * Val(it.z).den

ZAtMostMinusEnter == Val(it.z).sgn = -1 /\ 25 * Val(it.z).num >= 36 * Val(it.z).den

\* C5, as claimed: in an iteration where both breakers and the gate pass and no
\* position is open, z >= Z_ENTER sends exactly one sell order with stop-loss
\* price + stop_dist and take-profit price - 1.5 * stop_dist, z <= -Z_ENTER
\* exactly one buy order with the levels mirrored, the volume compute_lot's,
\* stop-loss and take-profit on opposite sides of a positive price (an order
\* sent read here as: that send_order call made).
C5_Original ==
  FlatCase
    => /\ ZAtLeastEnter => EntryCall("sell")
       /\ ZAtMostMinusEnter => EntryCall("buy")

\* C5, amended: as claimed, unless compute_lot raises (mt5.symbol_info returns
\* None, or a division by zero), in which case send_order is not called and
\* the iteration ends as a caught error.
C5_EntryUnlessSizingRaises ==
  FlatCase
    => LET sizingRaised == it.outcome = "error" /\ it.step = "sizing" /\ it.sends = << >>
       IN /\ ZAtLeastEnter => (sizingRaised \/ EntryCall("sell"))
          /\ ZAtMostMinusEnter => (sizingRaised \/ EntryCall("buy"))
          /\ sizingRaised => it.calls[Len(it.calls)] = "symbol_info"

\* a buy entered on the bars whose 20-bar range is below 0.1% of the price
C5_Witness ==
  /\ FlatCase
  /\ ZAtMostMinusEnter
  /\ it.outcome = "entry"
  /\ it.bars = Some("down")
  /\ it.equity = Some(9800)
  /\ EntryCall("buy")
  /\ it.sends[1].volume = 294

\* the send_order calls of the iteration just made
SendOrderCalls == IF pc = "sleep" THEN {it.sends[k] : k \in 1..Len(it.sends)} ELSE {}

\* the request of a call, with the price of a tick that has bid < ask
FullRequest(s) ==
  /\ s.request # None
  /\ Val(s.request).type = s.side
  /\ Val(s.request).volume = s.volume
  /\ Val(s.request).sl = s.sl
  /\ Val(s.request).tp = s.tp
  /\ Val(s.request).price = (IF s.side = "buy" THEN TICK_OK.ask ELSE TICK_OK.bid)

\* C6, as claimed: when DRY_RUN is true every call of send_order builds the
\* full order request, never calls mt5.order_send and returns True, and the
\* broker receives no order submission over the run.
C6_Original ==
  DRY_RUN
    => /\ order_send_calls = 0
       /\ \A s \in SendOrderCalls :
            FullRequest(s) /\ s.calls = <<"symbol_info_tick">> /\ s.ret = "True"

\* C6, amended: when DRY_RUN is true no call of send_order calls
\* mt5.order_send, so the broker receives no order submission over the run;
\* a call whose mt5.symbol_info_tick reply is not None builds the full order
\* request and returns True, and a call whose reply is None raises before it
\* builds a request.
C6_DryRunNeverSubmits ==
  DRY_RUN
    => /\ order_send_calls = 0
       /\ \A s \in SendOrderCalls :
            /\ s.calls = <<"symbol_info_tick">>
            /\ s.ret \in {"True", "raised"}
            /\ s.ret = "True" => FullRequest(s)
            /\ s.ret = "raised" => s.request = None

\* a dry-run iteration that closed two positions
C6_Witness ==
  /\ DRY_RUN
  /\ pc = "sleep"
  /\ Len(it.sends) = 2
  /\ \A s \in SendOrderCalls : s.ret = "True" /\ FullRequest(s)
  /\ order_send_calls = 0

(***************************************************************************)
(* compute_lot on its own: one call on an equity > 0, a stop distance > 0  *)
(* and symbol metadata with volume_step > 0 and volume_min <= volume_max   *)
(* between which a multiple of volume_step lies.                           *)
(***************************************************************************)
LotEquities == {1, 100, 10000}

LotStops == {1, 1000, 4000}

LotInfos ==
  {SymbolInfo(10, 1, vmin, vmax, step) : vmin \in {1, 2, 3}, vmax \in {4, 500}, step \in {1, 2}}

LotInit ==
  /\ pc = "fn"
  /\ fn_in \in [equity : LotEquities, stop_dist : {Some(d) : d \in LotStops},
                info : {Some(i) : i \in LotInfos}]
  /\ fn_out = None
  /\ now = 0
  /\ DRY_RUN = TRUE
  /\ last_trade_time = None
  /\ loss_streak = 0
  /\ peak_equity = None
  /\ day_start = None
  /\ start_equity = None
  /\ it = NoReport
  /\ order_send_calls = 0
  /\ shutdown_calls = 0
  /\ initialized = None
  /\ last_send = None

ComputeLot ==
  /\ pc = "fn"
  /\ pc' = "done"
  /\ fn_out' = Some(compute_lot(fn_in.equity, fn_in.stop_dist, fn_in.info))
  /\ UNCHANGED <<now, DRY_RUN, last_trade_time, loss_streak, peak_equity, day_start,
                 start_equity, it, order_send_calls, shutdown_calls, initialized, last_send, fn_in>>

LotSpec == LotInit /\ [][ComputeLot]_vars

\* C7: for any equity > 0, stop distance > 0 and metadata with volume_step > 0
\* and volume_min <= volume_max, compute_lot returns a volume v with
\* volume_min <= v <= volume_max that is an exact multiple of volume_step.
C7_Original ==
  pc = "done"
    => LET i == Val(fn_in.info)
           v == Val(fn_out).volume
       IN /\ ~Val(fn_out).raised
          /\ i.volume_min <= v
          /\ v <= i.volume_max
          /\ v % i.volume_step = 0

\* C8: in every iteration that calls send_order (entry or exit),
\* last_trade_time is set to the current time before the iteration ends,
\* whatever the outcome of the submission: accepted, rejected, or no result
\* object returned by the broker.
C8_Original ==
  (pc = "sleep" /\ it.sends # << >>) => last_trade_time = Some(now)

\* the last instant the sampled clock has
LastTime == CHOOSE t \in Times : \A u \in Times : u <= t

\* C9: once the loop has started, an exception raised in a step of an
\* iteration never ends the loop: the iteration ends in the retry delay of at
\* least 10 s, after which the next iteration can begin (while the sampled
\* clock has an instant left); the loop ends only through an interrupt, at
\* which shutdown() is called, exactly once over the run.
C9_LoopSurvivesExceptions ==
  /\ [][/\ pc \in {"loop", "sleep"} => pc' \in {"loop", "sleep", "stopped"}
        /\ (pc = "loop" /\ it'.outcome = "error")
             => (pc' = "sleep" /\ shutdown_calls' = shutdown_calls)
        /\ (pc = "sleep" /\ it.outcome = "error" /\ pc' = "loop") => now' >= now + 10
        /\ pc' = "stopped" => (shutdown_calls = 0 /\ shutdown_calls' = 1)
        /\ shutdown_calls' # shutdown_calls => pc' = "stopped"]_vars
  /\ []((pc = "sleep" /\ it.outcome = "error" /\ now + 10 <= LastTime) => ENABLED Wake)
  /\ [](shutdown_calls = (IF pc = "stopped" THEN 1 ELSE 0))

\* an iteration whose order submission raised, asleep before the next one
C9_Witness ==
  /\ pc = "sleep"
  /\ it.outcome = "error"
  /\ it.step = "send"
  /\ order_send_calls = 1
  /\ now + 10 <= LastTime
  /\ shutdown_calls = 0

(***************************************************************************)
(* zscore on its own, in binary floating point.  series.std() and          *)
(* series.mean() (lines 81, 84) both start from avg = series.sum() / n:    *)
(* the sum adds the values one by one (fewer than 8 of them), each         *)
(* addition and the division rounded to the nearest float, ties to even;   *)
(* the deviation is then the root of sum((avg - x)^2) / (n - 1), and it is *)
(* 0.0 only if avg == x for every x.  The float64 significand of 53 bits   *)
(* is shortened here to Precision bits; the values are the floats of one   *)
(* binade, written as integers in units of their half ulp, which makes     *)
(* every sum and every mean an integer too.                                *)
(***************************************************************************)
Precision == 4

MaxSeriesLen == 3

RECURSIVE Pow2(_)
Pow2(k) == IF k = 0 THEN 1 ELSE 2 * Pow2(k - 1)

FloatValues == {2 * m : m \in Pow2(Precision - 1)..(Pow2(Precision) - 1)}

\* the spacing of the floats around num / den >= 2^(Precision - 1)
RECURSIVE UlpOf(_, _, _)
UlpOf(num, den, u) ==
  IF num < Pow2(Precision) * u * den THEN u ELSE UlpOf(num, den, 2 * u)

\* num / den rounded to the nearest float, ties to the even significand
RoundToPrecision(num, den) ==
  LET u == UlpOf(num, den, 1)
      q == num \div (den * u)
      rem == num - q * den * u
      up == 2 * rem > den * u \/ (2 * rem = den * u /\ q % 2 = 1)
  IN (IF up THEN q + 1 ELSE q) * u

\* series.sum(): the first k values added in order
RECURSIVE FloatSumTo(_, _)
FloatSumTo(series, k) ==
  IF k = 0 THEN 0 ELSE RoundToPrecision(FloatSumTo(series, k - 1) + series[k], 1)

\* series.mean(), and the avg of series.std()
FloatMean(series) == RoundToPrecision(FloatSumTo(series, Len(series)), Len(series))

\* zscore with the rounded mean; the squares, their sum, the root and the
\* final quotient are exact here: their rounding changes neither whether
\* std == 0 nor the sign of the result
zscore_rounded(series) ==
  LET n == Len(series)
      avg == FloatMean(series)
      SS == Sum([i \in 1..n |-> Sq(avg - series[i])])
  IN IF StdUndefined(series) \/ SS = 0 THEN ZERO
     ELSE [sgn |-> Sgn(series[n] - avg), num |-> Sq(series[n] - avg) * (n - 1), den |-> SS]

SeriesInputs == UNION {[1..n -> FloatValues] : n \in 0..MaxSeriesLen}

ZInit ==
  /\ pc = "fn"
  /\ fn_in \in SeriesInputs
  /\ fn_out = None
  /\ now = 0
  /\ DRY_RUN = TRUE
  /\ last_trade_time = None
  /\ loss_streak = 0
  /\ peak_equity = None
  /\ day_start = None
  /\ start_equity = None
  /\ it = NoReport
  /\ order_send_calls = 0
  /\ shutdown_calls = 0
  /\ initialized = None
  /\ last_send = None

ZScore ==
  /\ pc = "fn"
  /\ pc' = "done"
  /\ fn_out' = Some(zscore_rounded(fn_in))
  /\ UNCHANGED <<now, DRY_RUN, last_trade_time, loss_streak, peak_equity, day_start,
                 start_equity, it, order_send_calls, shutdown_calls, initialized, last_send, fn_in>>

ZSpec == ZInit /\ [][ZScore]_vars

\* C10: zscore returns exactly 0.0 for every series whose standard deviation
\* is zero or undefined: identical values, a single value, or no value.
C10_Original ==
  pc = "done"
    => ((\A i, j \in 1..Len(fn_in) : fn_in[i] = fn_in[j]) => Val(fn_out) = ZERO)

\* the send_order calls of the iteration just made that carry a stop-loss and
\* a take-profit (entries), and those that carry neither (closing orders)
EntryOrders ==
  IF pc = "sleep" THEN {k \in 1..Len(it.sends) : it.sends[k].sl # None /\ it.sends[k].tp # None}
  ELSE {}

ClosingOrders ==
  IF pc = "sleep" THEN {k \in 1..Len(it.sends) : it.sends[k].sl = None /\ it.sends[k].tp = None}
  ELSE {}

\* C11: no iteration sends both a closing order and an entry order; an entry
\* order is sent only in an iteration whose positions query returned no open
\* position (has_position() is None), a closing order only in one where it
\* returned at least one; at most one entry order is sent per iteration.
C11_EntryExitExclusive ==
  /\ ~(EntryOrders # {} /\ ClosingOrders # {})
  /\ EntryOrders \cup ClosingOrders = (IF pc = "sleep" THEN 1..Len(it.sends) ELSE {})
  /\ EntryOrders # {}
       => (it.pos = None /\ it.calls[5] = "positions_get" /\ Count(it.calls, "positions_get") = 1)
  /\ ClosingOrders # {}
       => (it.pos # None /\ Len(Val(it.pos)) >= 1 /\ Cardinality(ClosingOrders) <= Len(Val(it.pos)))
  /\ Cardinality(EntryOrders) <= 1

\* an iteration that entered with no position reported
C11_Witness ==
  /\ pc = "sleep"
  /\ it.outcome = "entry"
  /\ Cardinality(EntryOrders) = 1
  /\ ClosingOrders = {}
  /\ it.pos = None
  /\ it.sends[1].side = "sell"

GateFailureReasons ==
  {"outside trade hours", "cooldown", "volatility too high", "spread too wide"}

\* an iteration in which safety_check returned a failure
GateFailed == IterationStep /\ it'.reason \in GateFailureReasons

\* a gate failure queries no positions and sends no order
NoDecision ==
  /\ Count(it'.calls, "positions_get") = 0
  /\ it'.pos = None
  /\ it'.sends = << >>
  /\ order_send_calls' = order_send_calls
  /\ last_trade_time' = last_trade_time

\* C12, as claimed: an iteration in which safety_check returns a failure
\* queries no positions, sends no order (so an open position is not closed
\* even when |z| <= Z_EXIT) and leaves last_trade_time, loss_streak,
\* start_equity and day_start unchanged.
C12_Original ==
  [][GateFailed
       => /\ NoDecision
          /\ loss_streak' = loss_streak
          /\ start_equity' = start_equity
          /\ day_start' = day_start]_vars

\* C12, amended: such an iteration queries no positions, sends no order and
\* leaves last_trade_time unchanged; loss_streak, start_equity and day_start
\* are left as the first observation and the day rollover at the top of that
\* iteration set them, unchanged when the iteration is neither.
C12_GateFailureSkipsDecision ==
  [][GateFailed
       => /\ NoDecision
          /\ it'.z = None
          /\ it'.outcome = "gate"
          /\ IF Date(now) # day_start
             THEN /\ start_equity' = it'.equity
                  /\ loss_streak' = 0
                  /\ day_start' = Date(now)
             ELSE /\ day_start' = day_start
                  /\ loss_streak' = loss_streak
                  /\ start_equity' = (IF start_equity = None THEN it'.equity ELSE start_equity)]_vars

\* a cooldown failure in an iteration that is neither a first observation nor
\* a rollover
C12_Witness ==
  /\ pc = "sleep"
  /\ it.reason = "cooldown"
  /\ it.outcome = "gate"
  /\ ~it.rolled
  /\ last_trade_time # None
  /\ it.sends = << >>

\* C13: when the trading-hours filter passes, the cooldown filter fails with
\* reason "cooldown" exactly when last_trade_time is set and the time elapsed
\* since it does not exceed MIN_TRADE_INTERVAL seconds, for every elapsed
\* duration, durations of more than a day included; it always passes when
\* last_trade_time is None.
C13_Original ==
  [][(IterationStep /\ it'.bars # None /\ ~HoursFilterFails(now))
       => IF last_trade_time = None
          THEN it'.reason # "cooldown"
          ELSE (it'.reason = "cooldown")
                 <=> (now - Val(last_trade_time) <= MIN_TRADE_INTERVAL)]_vars

\* |z| > 0.3 and |z| < 1.2 of the z-score in report r (z^2 = num / den)
AbsAboveExit(r) == 100 * Val(r.z).num > 9 * Val(r.z).den

AbsBelowEnter(r) == 25 * Val(r.z).num < 36 * Val(r.z).den

\* C14: in an iteration where the gate passes and either a position is open
\* with |z| > Z_EXIT, or no position is open with |z| < Z_ENTER, run() sends
\* no order and leaves last_trade_time unchanged.
C14_HoldAndWait ==
  [][(/\ IterationStep
      /\ it'.reason = "ok"
      /\ it'.z # None
      /\ \/ it'.pos # None /\ AbsAboveExit(it')
         \/ it'.pos = None /\ AbsBelowEnter(it'))
       => /\ it'.sends = << >>
          /\ Count(it'.calls, "symbol_info_tick") = 1
          /\ Count(it'.calls, "order_send") = 0
          /\ order_send_calls' = order_send_calls
          /\ last_trade_time' = last_trade_time
          /\ it'.outcome \in {"hold", "wait"}]_vars

\* a position held through a z-score beyond the entry threshold, after a trade
C14_Witness ==
  /\ pc = "sleep"
  /\ it.outcome = "hold"
  /\ it.pos # None
  /\ AbsAboveExit(it)
  /\ ~AbsBelowEnter(it)
  /\ last_trade_time # None
  /\ last_trade_time # Some(now)

(***************************************************************************)
(* The program started with the loss streak at any value: loss_streak is a *)
(* module global (line 49) that only a step outside this file could raise. *)
(***************************************************************************)
StreakInit ==
  /\ pc = "start"
  /\ now = 32400
  /\ DRY_RUN \in BOOLEAN
  /\ last_trade_time = None
  /\ loss_streak \in 0..(MAX_LOSS_STREAK + 1)
  /\ peak_equity = None
  /\ day_start = Date(32400)
  /\ start_equity = None
  /\ it = NoReport
  /\ order_send_calls = 0
  /\ shutdown_calls = 0
  /\ initialized = None
  /\ last_send = None
  /\ fn_in = None
  /\ fn_out = None

StreakSpec == StreakInit /\ [][Next]_vars

\* C15: an iteration where the daily-loss breaker does not trip and
\* loss_streak >= MAX_LOSS_STREAK (after the bookkeeping) skips the whole
\* decision cycle: no bar fetch, no safety gate, no order; and no step ever
\* raises loss_streak, it only stays or is reset to 0 by the day rollover, so
\* from its initial 0 it stays 0 and the breaker trips only if loss_streak was
\* at least MAX_LOSS_STREAK before the iteration.
C15_LossStreakBreaker ==
  /\ [][(/\ IterationStep
         /\ it'.equity # None
         /\ it'.outcome # "daily_loss"
         /\ ~(it'.outcome = "error" /\ it'.step = "daily_loss")
         /\ loss_streak' >= MAX_LOSS_STREAK)
          => /\ it'.outcome = "loss_streak"
             /\ it'.calls = <<"account_info">>
             /\ it'.bars = None
             /\ it'.reason = ""
             /\ it'.sends = << >>
             /\ order_send_calls' = order_send_calls
             /\ last_trade_time' = last_trade_time]_vars
  /\ [][/\ loss_streak' \in {loss_streak, 0}
        /\ loss_streak = 0 => loss_streak' = 0
        /\ loss_streak' # loss_streak => (IterationStep /\ it'.rolled)
        /\ (IterationStep /\ it'.outcome = "loss_streak")
             => (loss_streak >= MAX_LOSS_STREAK /\ ~it'.rolled)]_vars
  /\ (loss_streak = 0) => [](loss_streak = 0 /\ it.outcome # "loss_streak")

\* the breaker tripped on a streak the program did not count itself
C15_Witness ==
  /\ pc = "sleep"
  /\ it.outcome = "loss_streak"
  /\ loss_streak = MAX_LOSS_STREAK
  /\ it.equity = Some(9800)
  /\ start_equity = Some(10000)

\* the loop has been entered at some point: an iteration is running, asleep,
\* or has left its trace
LoopEntered ==
  \/ pc \in {"loop", "sleep"}
  \/ it # NoReport
  \/ start_equity # None
  \/ peak_equity # None
  \/ last_trade_time # None
  \/ order_send_calls # 0

\* C16: if the broker connection in init() fails, run() raises before the
\* loop starts: no account snapshot is taken, no market data fetched, no
\* order ever sent, the retry path never entered, and nothing runs afterwards.
C16_StartupFailureFatal ==
  /\ [](initialized = Some(FALSE)
          => (pc = "raised" /\ ~LoopEntered /\ shutdown_calls = 0 /\ ~ENABLED Next))
  /\ [](pc = "raised" => initialized = Some(FALSE))
  /\ [][/\ pc = "raised" => pc' = "raised"
        /\ (pc # "raised" /\ pc' = "raised") => (pc = "start" /\ UNCHANGED it)]_vars

\* init() has raised
C16_Witness ==
  /\ initialized = Some(FALSE)
  /\ pc = "raised"
  /\ it = NoReport
  /\ order_send_calls = 0

\* C17: after an iteration in which send_order was called (entry or exit,
\* live or dry run, whether the submission succeeded, was rejected or raised),
\* no later iteration calls send_order less than MIN_TRADE_INTERVAL seconds
\* afterwards.
C17_Original ==
  [][(IterationStep /\ it'.sends # << >> /\ last_send # None)
       => now - Val(last_send) >= MIN_TRADE_INTERVAL]_vars

\* C18: in the iteration that performs a day rollover, and in the first
\* iteration with an account snapshot, start_equity is the current equity
\* when the daily-loss check runs, so the breaker does not trip in it,
\* whatever start_equity was before; with equity > 0 the check does not raise
\* either.
C18_RolloverReleasesBreaker ==
  [][(/\ IterationStep
      /\ it'.equity # None
      /\ (Date(now) # day_start \/ start_equity = None))
       => /\ start_equity' = it'.equity
          /\ it'.outcome # "daily_loss"
          /\ Val(it'.equity) > 0 => ~(it'.outcome = "error" /\ it'.step = "daily_loss")
          /\ Val(it'.equity) > 0 => Count(it'.calls, "copy_rates_from") = 1]_vars

\* a rollover at an equity 2.1% below the previous start_equity, past the
\* breaker
C18_Witness ==
  /\ pc = "sleep"
  /\ it.rolled
  /\ it.equity = Some(9790)
  /\ start_equity = Some(9790)
  /\ peak_equity = Some(10000)
  /\ it.bars # None

\* an iteration with an account snapshot that is the first observation, or
\* that rolls the day over
FirstObserving == IterationStep /\ it'.equity # None /\ start_equity = None

RollingOver == IterationStep /\ it'.equity # None /\ Date(now) # day_start

\* C19: start_equity is written only by the first successful account
\* observation and by the day rollover, peak_equity only by that first
\* observation, day_start and loss_streak only by the rollover; nothing else
\* in an iteration (breaker trip, gate failure, hold, entry, exit, caught
\* exception) and no other step changes them; last_trade_time is changed
\* only by an iteration that called send_order.
C19_RiskStateFrame ==
  [][/\ start_equity' # start_equity
          => ((FirstObserving \/ RollingOver) /\ start_equity' = it'.equity)
     /\ peak_equity' # peak_equity
          => (FirstObserving /\ peak_equity = None /\ peak_equity' = it'.equity)
     /\ day_start' # day_start => (RollingOver /\ day_start' = Date(now))
     /\ loss_streak' # loss_streak => (RollingOver /\ loss_streak' = 0)
     /\ (IterationStep /\ ~FirstObserving /\ ~RollingOver)
          => UNCHANGED <<start_equity, peak_equity, day_start, loss_streak>>
     /\ last_trade_time' # last_trade_time
          => (IterationStep /\ it'.sends # << >> /\ last_trade_time' = Some(now))]_vars

\* an exit, on the day and after the first observation, that set
\* last_trade_time and left the risk state as it was
C19_Witness ==
  /\ pc = "sleep"
  /\ it.outcome = "exit"
  /\ ~it.rolled
  /\ it.equity = Some(9800)
  /\ start_equity = Some(10000)
  /\ peak_equity = Some(10000)
  /\ last_trade_time = Some(now)
  /\ last_trade_time = last_send

====
